---- MODULE Spec2Model ----
(***************************************************************************)
(* Model of the nest-check reconciliation of django-bird-colony:           *)
(* birds/tools.py (tabulate_locations) and birds/views.py (nest_check,     *)
(* nest_report, new_event_entry, PairingEntry, PairingClose).  The         *)
(* persistent store is the Animal table, the Event table (a sequence, in   *)
(* creation order), the NestCheck table, the Pairing table and the Status  *)
(* lookup table.                                                           *)
(***************************************************************************)
EXTENDS Integers, Sequences, FiniteSets, TLC

VARIABLES
    today,      \* the calendar day datetime.datetime.now().date() returns
    animal,     \* Animal table: id -> [sex, sire, dam]
    events,     \* Event table, in creation order: [animal, date, status, location]
    nestchecks, \* number of NestCheck rows
    pairings,   \* Pairing table, in creation order: [sire, dam, began, ended, comment]
    status_rows, \* names of the rows of the Status lookup table
    session,    \* nest_check requests in progress, one per server worker
    resp        \* what the last request computed and answered

vars == <<today, animal, events, nestchecks, pairings, status_rows, session, resp>>

-----------------------------------------------------------------------------
(* Bounds of the model *)

MaxCount == 2        \* a submitted nest holds at most MaxCount eggs + chicks
MaxAnimals == 7      \* cap on the number of Animal rows
MaxChecks == 2       \* cap on the number of NestCheck rows
MaxDay == 2          \* the days of the event history are 0..MaxDay
MaxEvents == 4       \* cap on the number of Event rows of the history
MaxPairings == 1     \* cap on the number of Pairing rows
JuvenileDays == 1    \* age (days since hatch) at which a chick is a juvenile
AdultDays == 2       \* age (days since hatch) at which a bird is an adult

-----------------------------------------------------------------------------
(* Lookup tables: locations and statuses *)

NestOrder == <<"N1", "N2">>
Nests == {NestOrder[i] : i \in 1..Len(NestOrder)}
Home == "home"
Locations == Nests \cup {Home}
NoLoc == "noloc"
NoAnimal == 0

HatchStatus == "hatched"
LaidStatus == "laid"
LostStatus == "lost"
MovedStatus == "moved"
NoteStatus == "note"
DiedStatus == "died"
ReservationStatus == "reservation"
NoStatus == "None"

Removes(status) == status \in {DiedStatus, LostStatus}

\* the rows of the Status table of the starter kit
AllStatuses ==
    {HatchStatus, LaidStatus, LostStatus, MovedStatus, NoteStatus, DiedStatus,
     ReservationStatus}

Male == "M"
Female == "F"
UnknownSex == "U"

\* the users; NoUser: None
NoUser == "nobody"
Users == {"recorder"}

-----------------------------------------------------------------------------
(* Queries of birds.models used by tabulate_locations *)

Min(S) == CHOOSE x \in S : \A y \in S : x <= y

EventIdx(evs, a, d) ==
    {i \in 1..Len(evs) : evs[i].animal = a /\ evs[i].date <= d}

\* Animal.objects.existed_on(date)
ExistedOn(evs, a, d) ==
    /\ EventIdx(evs, a, d) # {}
    /\ \A i \in EventIdx(evs, a, d) : ~Removes(evs[i].status)

\* Event.objects.has_location().filter(date__lte=d)
LocEvents(evs, a, d) ==
    {i \in EventIdx(evs, a, d) : evs[i].location # NoLoc}

\* ordering (date, created) of the events of one animal
Later(evs, i, j) ==
    \/ evs[i].date > evs[j].date
    \/ evs[i].date = evs[j].date /\ i > j

\* Event.objects.latest_by_animal()
LatestLocEvent(evs, a, d) ==
    CHOOSE i \in LocEvents(evs, a, d) :
        \A j \in LocEvents(evs, a, d) \ {i} : Later(evs, i, j)

\* Animal.age_group(date)
AgeGroup(evs, a, d) ==
    LET hatched == {evs[i].date : i \in {j \in EventIdx(evs, a, d) :
                                            evs[j].status = HatchStatus}}
        laid == {i \in EventIdx(evs, a, d) : evs[i].status = LaidStatus}
    IN  IF hatched = {}
        THEN IF laid # {} THEN "egg" ELSE "unknown"
        ELSE IF d - Min(hatched) >= AdultDays THEN "adult"
             ELSE IF d - Min(hatched) >= JuvenileDays THEN "juvenile"
             ELSE "chick"

AgeGroups == {"egg", "chick", "juvenile", "adult", "unknown"}

-----------------------------------------------------------------------------
(* tools.tabulate_locations *)

\* mutant: the queryset is not restricted to the animals alive on the day
PlacedAtNoAliveFilter(evs, a, d, n) ==
    /\ LocEvents(evs, a, d) # {}
    /\ evs[LatestLocEvent(evs, a, d)].location = n
    /\ n \in Nests

\* mutant: the latest event is taken over all dates, not up to the day
PlacedAtIgnoresDate(evs, a, d, n) ==
    /\ ExistedOn(evs, a, d)
    /\ LocEvents(evs, a, d + MaxDay + AdultDays) # {}
    /\ evs[LatestLocEvent(evs, a, d + MaxDay + AdultDays)].location = n
    /\ n \in Nests

\* mutant: the queryset holds every located event, not the latest by animal
PlacedAtEveryEvent(evs, a, d, n) ==
    /\ ExistedOn(evs, a, d)
    /\ \E i \in LocEvents(evs, a, d) : evs[i].location = n
    /\ n \in Nests

\* the body of the per-day loop: is the animal appended to locations[n]?
PlacedAt(evs, a, d, n) ==
    /\ ExistedOn(evs, a, d)
    /\ LocEvents(evs, a, d) # {}
    /\ evs[LatestLocEvent(evs, a, d)].location = n
    /\ n \in Nests

\* data[d][n]: the animals of the queryset, in queryset order (by animal id)
RECURSIVE OccupantsUpTo(_, _, _, _)
OccupantsUpTo(evs, d, n, k) ==
    IF k = 0 THEN <<>>
    ELSE LET rest == OccupantsUpTo(evs, d, n, k - 1)
         IN  IF PlacedAt(evs, k, d, n) THEN Append(rest, k) ELSE rest

Occupants(evs, d, n) == OccupantsUpTo(evs, d, n, MaxAnimals)

RECURSIVE FilterGroup(_, _, _, _)
FilterGroup(evs, d, s, g) ==
    IF s = <<>> THEN <<>>
    ELSE IF AgeGroup(evs, Head(s), d) = g
         THEN <<Head(s)>> \o FilterGroup(evs, d, Tail(s), g)
         ELSE FilterGroup(evs, d, Tail(s), g)

\* mutant: the adults are counted like every other age group
LocDataCountsAdults(evs, d, n) ==
    LET occ == Occupants(evs, d, n)
        byGroup == [egg |-> FilterGroup(evs, d, occ, "egg"),
                    chick |-> FilterGroup(evs, d, occ, "chick"),
                    juvenile |-> FilterGroup(evs, d, occ, "juvenile"),
                    adult |-> FilterGroup(evs, d, occ, "adult"),
                    unknown |-> FilterGroup(evs, d, occ, "unknown")]
    IN  [animals |-> byGroup,
         counts |-> [egg |-> Len(byGroup.egg), chick |-> Len(byGroup.chick),
                     juvenile |-> Len(byGroup.juvenile),
                     adult |-> Len(byGroup.adult),
                     unknown |-> Len(byGroup.unknown)]]

\* locdata of one nest on one day: the animals by age group, and the counts
\* of the age groups other than adult (a Counter: 0 for a missing key)
LocData(evs, d, n) ==
    LET occ == Occupants(evs, d, n)
        byGroup == [egg |-> FilterGroup(evs, d, occ, "egg"),
                    chick |-> FilterGroup(evs, d, occ, "chick"),
                    juvenile |-> FilterGroup(evs, d, occ, "juvenile"),
                    adult |-> FilterGroup(evs, d, occ, "adult"),
                    unknown |-> FilterGroup(evs, d, occ, "unknown")]
    IN  [animals |-> byGroup,
         counts |-> [egg |-> Len(byGroup.egg), chick |-> Len(byGroup.chick),
                     juvenile |-> Len(byGroup.juvenile), adult |-> 0,
                     unknown |-> Len(byGroup.unknown)]]

RECURSIVE DateList(_, _)
\* mutant: while repdate < until
DateListExclusive(since, until) ==
    IF since >= until THEN <<>> ELSE <<since>> \o DateList(since + 1, until)

\* dates: one per day from since through until
DateList(since, until) ==
    IF since > until THEN <<>> ELSE <<since>> \o DateList(since + 1, until)

\* days of one nest: its locdata for each of the dates
RECURSIVE DayList(_, _, _)
DayList(evs, dates, n) ==
    IF dates = <<>> THEN <<>>
    ELSE <<LocData(evs, Head(dates), n)>> \o DayList(evs, Tail(dates), n)

RECURSIVE NestData(_, _, _)
NestData(evs, dates, k) ==
    IF k > Len(NestOrder) THEN <<>>
    ELSE <<[location |-> NestOrder[k], days |-> DayList(evs, dates, NestOrder[k])]>>
         \o NestData(evs, dates, k + 1)

\* mutant: dates is a list of the module, kept from one call to the next
TabulateLocationsKeepsDates(evs, since, until) ==
    LET kept == IF resp.view = "nest_report" THEN resp.dates ELSE <<>>
    IN  [dates |-> kept \o DateList(since, until),
         nest_data |-> NestData(evs, kept \o DateList(since, until), 1)]

\* dates, nest_data = tabulate_locations(since, until)
TabulateLocations(evs, since, until) ==
    [dates |-> DateList(since, until),
     nest_data |-> NestData(evs, DateList(since, until), 1)]

-----------------------------------------------------------------------------
(* forms.NestCheckForm and forms.NestCheckUser, as the view uses them *)

Counts == {c \in [eggs : 0..MaxCount, chicks : 0..MaxCount] :
              c.eggs + c.chicks <= MaxCount}
Submissions == [Nests -> Counts]

\* NestCheckForm.clean: the counts may not remove a chick, nor hatch more
\* chicks than there were eggs
FormErrors(init, updated) ==
    (IF updated.chicks - init.chicks < 0 THEN {"cannot lose chick"} ELSE {})
    \cup
    (IF updated.chicks - init.chicks > init.eggs THEN {"not enough eggs"} ELSE {})

\* mutant: the view does not look at the formset's validity
FormsetAlwaysValid(formErrors) == TRUE

\* mutant: the validity of the first form stands for the whole formset
FormsetFirstFormOnly(formErrors) == formErrors[NestOrder[1]] = {}

\* nest_formset.is_valid(): no form of the formset has an error
FormsetIsValid(formErrors) == \A n \in Nests : formErrors[n] = {}

\* Form.has_changed(): some field differs from its initial value
HasChanged(init, updated) ==
    updated.eggs # init.eggs \/ updated.chicks # init.chicks

-----------------------------------------------------------------------------
(* views.nest_check *)

\* the evaluation of datetime.now in views.py, where the name datetime is
\* bound to the module by "import datetime": the attribute does not exist
DatetimeHasNow == FALSE

CheckSince(day) == day - 2

\* nest["days"][-1]
LastDay(nest) == nest.days[Len(nest.days)]

RECURSIVE NestCheckInitial(_)
\* mutant: the eggs are not taken off the chick count
NestCheckInitialTotal(nest_data) ==
    IF nest_data = <<>> THEN <<>>
    ELSE LET nest == Head(nest_data)
             today_counts == LastDay(nest).counts
             total_count == today_counts["egg"] + today_counts["chick"]
                            + today_counts["juvenile"] + today_counts["adult"]
                            + today_counts["unknown"]
         IN  <<[location |-> nest.location, eggs |-> today_counts["egg"],
                chicks |-> total_count]>>
             \o NestCheckInitial(Tail(nest_data))

\* initial: today's counts of every nest of nest_data
NestCheckInitial(nest_data) ==
    IF nest_data = <<>> THEN <<>>
    ELSE LET nest == Head(nest_data)
             today_counts == LastDay(nest).counts
             total_count == today_counts["egg"] + today_counts["chick"]
                            + today_counts["juvenile"] + today_counts["adult"]
                            + today_counts["unknown"]
             eggs == today_counts["egg"]
         IN  <<[location |-> nest.location, eggs |-> eggs,
                chicks |-> total_count - eggs]>>
             \o NestCheckInitial(Tail(nest_data))

\* delta_chicks and delta_eggs of one nest
DeltaChicks(init, updated) == updated.chicks - init.chicks

\* mutant: the hatched chicks are not added back to the egg delta
DeltaEggsRaw(init, updated) == updated.eggs - init.eggs

DeltaEggs(init, updated) ==
    updated.eggs - init.eggs + DeltaChicks(init, updated)

\* next((animal for animal in adults if animal.sex == sex)), NoAnimal on
\* StopIteration
RECURSIVE FirstOfSex(_, _, _)
FirstOfSex(ans, adults, sex) ==
    IF adults = <<>> THEN NoAnimal
    ELSE IF ans[Head(adults)].sex = sex THEN Head(adults)
         ELSE FirstOfSex(ans, Tail(adults), sex)

\* mutant: the number of adults is not checked
AdultErrorsNoLimit(ans, adults) ==
    (IF FirstOfSex(ans, adults, Male) = NoAnimal
     THEN {"unable to add egg - no sire"} ELSE {})
    \cup
    (IF FirstOfSex(ans, adults, Female) = NoAnimal
     THEN {"unable to add egg - no dam"} ELSE {})

\* the errors the view adds to a nest form when delta_eggs > 0
AdultErrors(ans, adults) ==
    IF Len(adults) > 2 THEN {"unable to add egg - too many adults"}
    ELSE (IF FirstOfSex(ans, adults, Male) = NoAnimal
          THEN {"unable to add egg - no sire"} ELSE {})
         \cup
         (IF FirstOfSex(ans, adults, Female) = NoAnimal
          THEN {"unable to add egg - no dam"} ELSE {})

Item(status, a, sire, dam, location) ==
    [status |-> status, animal |-> a, sire |-> sire, dam |-> dam,
     location |-> location]

\* for _ in range(count): ...animal=eggs.pop(): the items made from the last
\* count elements of eggs, the last one first
RECURSIVE PopItems(_, _, _, _)
\* mutant: eggs.pop(0), the first element of the list
PopItemsFromFront(eggs, count, status, location) ==
    IF count <= 0 \/ eggs = <<>> THEN <<>>
    ELSE <<Item(status, eggs[1], NoAnimal, NoAnimal, location)>>
         \o PopItems(Tail(eggs), count - 1, status, location)

PopItems(eggs, count, status, location) ==
    IF count <= 0 \/ eggs = <<>> THEN <<>>
    ELSE <<Item(status, eggs[Len(eggs)], NoAnimal, NoAnimal, location)>>
         \o PopItems(SubSeq(eggs, 1, Len(eggs) - 1), count - 1, status, location)

RECURSIVE LayItems(_, _, _, _)
\* mutant: range(delta_eggs - 1)
LayItemsShort(count, sire, dam, location) ==
    IF count <= 1 THEN <<>>
    ELSE <<Item(LaidStatus, NoAnimal, sire, dam, location)>>
         \o LayItems(count - 1, sire, dam, location)

LayItems(count, sire, dam, location) ==
    IF count <= 0 THEN <<>>
    ELSE <<Item(LaidStatus, NoAnimal, sire, dam, location)>>
         \o LayItems(count - 1, sire, dam, location)

Positive(x) == IF x > 0 THEN x ELSE 0

\* mutant: the lost eggs are popped from the list the hatched eggs are
\* still in
NestChangesSamePop(ans, locdata, location, delta_chicks, delta_eggs) ==
    LET eggs == locdata.animals["egg"]
        adults == locdata.animals["adult"]
        hatched == PopItems(eggs, delta_chicks, HatchStatus, location)
    IN  IF delta_eggs < 0
        THEN hatched \o PopItems(eggs, -delta_eggs, LostStatus, location)
        ELSE hatched \o LayItems(delta_eggs, FirstOfSex(ans, adults, Male),
                                 FirstOfSex(ans, adults, Female), location)

\* the changes of one nest whose form has changed and has no error
NestChanges(ans, locdata, location, delta_chicks, delta_eggs) ==
    LET eggs == locdata.animals["egg"]
        adults == locdata.animals["adult"]
        hatched == PopItems(eggs, delta_chicks, HatchStatus, location)
        left == SubSeq(eggs, 1, Len(eggs) - Len(hatched))
    IN  IF delta_eggs < 0
        THEN hatched \o PopItems(left, -delta_eggs, LostStatus, location)
        ELSE hatched \o LayItems(delta_eggs, FirstOfSex(ans, adults, Male),
                                 FirstOfSex(ans, adults, Female), location)

NoChanges == [n \in Nests |-> <<>>]
NoErrors == [n \in Nests |-> {}]
Unchanged == <<Item(NoStatus, NoAnimal, NoAnimal, NoAnimal, NoLoc)>>

RECURSIVE ProcessNests(_, _, _, _, _, _)
\* mutant: a nest whose form got an error is left out and the loop goes on
ProcessNestsSkipInvalid(ans, nest_data, initial, sub, k, changes) ==
    IF k > Len(NestOrder)
    THEN [status |-> "ok", changes |-> changes, errors |-> NoErrors]
    ELSE
      LET location == NestOrder[k]
          init == initial[k]
          updated == sub[location]
          locdata == LastDay(nest_data[k])
          delta_chicks == DeltaChicks(init, updated)
          delta_eggs == DeltaEggs(init, updated)
          errs == IF delta_eggs > 0
                  THEN AdultErrors(ans, locdata.animals["adult"]) ELSE {}
      IN  IF ~HasChanged(init, updated)
          THEN ProcessNests(ans, nest_data, initial, sub, k + 1,
                            [changes EXCEPT ![location] = @ \o Unchanged])
          ELSE IF errs # {}
          THEN ProcessNests(ans, nest_data, initial, sub, k + 1, changes)
          ELSE ProcessNests(ans, nest_data, initial, sub, k + 1,
                   [changes EXCEPT ![location] =
                       @ \o NestChanges(ans, locdata, location,
                                        delta_chicks, delta_eggs)])

\* the loop over zip(nest_formset, nest_data), from nest k on
ProcessNests(ans, nest_data, initial, sub, k, changes) ==
    IF k > Len(NestOrder)
    THEN [status |-> "ok", changes |-> changes, errors |-> NoErrors]
    ELSE
      LET location == NestOrder[k]
          init == initial[k]
          updated == sub[location]
          locdata == LastDay(nest_data[k])
          delta_chicks == DeltaChicks(init, updated)
          delta_eggs == DeltaEggs(init, updated)
          errs == IF delta_eggs > 0
                  THEN AdultErrors(ans, locdata.animals["adult"]) ELSE {}
          pops == Positive(delta_chicks) + Positive(-delta_eggs)
      IN  IF ~HasChanged(init, updated)
          THEN ProcessNests(ans, nest_data, initial, sub, k + 1,
                            [changes EXCEPT ![location] = @ \o Unchanged])
          ELSE IF errs # {}
          THEN [status |-> "invalid", changes |-> NoChanges,
                errors |-> [NoErrors EXCEPT ![location] = errs]]
          ELSE IF pops > Len(locdata.animals["egg"])
          THEN [status |-> "IndexError", changes |-> NoChanges, errors |-> NoErrors]
          ELSE ProcessNests(ans, nest_data, initial, sub, k + 1,
                   [changes EXCEPT ![location] =
                       @ \o NestChanges(ans, locdata, location,
                                        delta_chicks, delta_eggs)])

\* changes.values(), flattened in insertion order
RECURSIVE ItemsFrom(_, _)
ItemsFrom(changes, k) ==
    IF k > Len(NestOrder) THEN <<>>
    ELSE changes[NestOrder[k]] \o ItemsFrom(changes, k + 1)

\* the primary key of the next Animal row
NewId(ans) == Cardinality(DOMAIN ans) + 1

AddAnimal(ans, id, row) ==
    [x \in DOMAIN ans \cup {id} |-> IF x = id THEN row ELSE ans[x]]

Event(a, date, status, location) ==
    [animal |-> a, date |-> date, status |-> status, location |-> location]

\* mutant: save() writes over the last Event row of the animal, if it has one
SaveEventOverLast(evs, event) ==
    LET own == {i \in 1..Len(evs) : evs[i].animal = event.animal}
    IN  IF own = {} THEN Append(evs, event)
        ELSE [evs EXCEPT ![CHOOSE i \in own : \A j \in own : j <= i] = event]

\* event.save() of an Event that was just constructed: a new row
SaveEvent(evs, event) == Append(evs, event)

\* the save() of each event of a list, in its order
RECURSIVE SaveEvents(_, _)
SaveEvents(evs, new) ==
    IF new = <<>> THEN evs
    ELSE SaveEvents(SaveEvent(evs, Head(new)), Tail(new))

\* mutant: every item that is not a laid egg is saved as an Event
IsEventItemNotLaid(item) == item.status # LaidStatus

\* item["status"] in (updated["hatch_status"], updated["lost_status"])
IsEventItem(item) == item.status \in {HatchStatus, LostStatus}

\* item["status"] == updated["laid_status"]
IsLayItem(item) == item.status = LaidStatus

\* the commit loop over the items; raised: datetime.now raised AttributeError
RECURSIVE CommitItems(_, _, _, _)
CommitItems(items, evs, ans, day) ==
    IF items = <<>> THEN [events |-> evs, animal |-> ans, raised |-> FALSE]
    ELSE
      LET item == Head(items)
      IN  IF IsEventItem(item)
          THEN IF ~DatetimeHasNow
               THEN [events |-> evs, animal |-> ans, raised |-> TRUE]
               ELSE CommitItems(Tail(items),
                        SaveEvent(evs, Event(item.animal, day, item.status,
                                             item.location)),
                        ans, day)
          ELSE IF IsLayItem(item)
          THEN LET id == NewId(ans)
                   saved == AddAnimal(ans, id,
                               [sex |-> UnknownSex, sire |-> item.sire,
                                dam |-> item.dam,
                                species |-> ans[item.sire].species,
                                reserved_by |-> NoUser])
               IN  IF ~DatetimeHasNow
                   THEN [events |-> evs, animal |-> saved, raised |-> TRUE]
                   ELSE CommitItems(Tail(items),
                            SaveEvent(evs, Event(id, day, item.status,
                                                 item.location)),
                            saved, day)
          ELSE CommitItems(Tail(items), evs, ans, day)

-----------------------------------------------------------------------------
(* The nest_check request as a whole *)

NestIndex(n) == CHOOSE k \in 1..Len(NestOrder) : NestOrder[k] = n

Snapshot(evs, ans, checks) ==
    [events |-> Len(evs), animals |-> Cardinality(DOMAIN ans), checks |-> checks]

Response(view, method, outcome, initial, sub, user_valid, confirmed, changes, errors, pre) ==
    [view |-> view, method |-> method, outcome |-> outcome,
     initial |-> initial, sub |-> sub,
     user_valid |-> user_valid, confirmed |-> confirmed,
     changes |-> changes, errors |-> errors, pre |-> pre]

NoCounts == [n \in Nests |-> [eggs |-> 0, chicks |-> 0]]

\* the response of a view other than nest_check
PlainResponse(view, method, outcome, pre) ==
    Response(view, method, outcome, <<>>, NoCounts, FALSE, FALSE,
             NoChanges, NoErrors, pre)

\* mutant: a valid recorder form commits, with or without the flag
CommitRequestedAnyRecorder(user_valid, confirmed) == user_valid

\* user_form.is_valid() and user_form.cleaned_data["confirmed"]
CommitRequested(user_valid, confirmed) == user_valid /\ confirmed

\* nest_check(request) for a POST: the store it leaves and its response
NestCheckPostResult(evs, ans, checks, day, nest_data, initial, sub, user_valid, confirmed) ==
    LET pre == Snapshot(evs, ans, checks)
        formErrors == [n \in Nests |-> FormErrors(initial[NestIndex(n)], sub[n])]
        proc == ProcessNests(ans, nest_data, initial, sub, 1, NoChanges)
        done == CommitItems(ItemsFrom(proc.changes, 1), evs, ans, day)
        answer(outcome, changes, errors) ==
            Response("nest_check", "POST", outcome, initial, sub,
                     user_valid, confirmed, changes, errors, pre)
        same(r) == [events |-> evs, animal |-> ans, nestchecks |-> checks,
                    resp |-> r]
    IN  IF ~FormsetIsValid(formErrors)
        THEN same(answer("initial", NoChanges, formErrors))
        ELSE IF proc.status = "invalid"
        THEN same(answer("initial", NoChanges, proc.errors))
        ELSE IF proc.status = "IndexError"
        THEN same(answer("IndexError", NoChanges, NoErrors))
        ELSE IF CommitRequested(user_valid, confirmed)
        THEN IF done.raised
             THEN [events |-> done.events, animal |-> done.animal,
                   nestchecks |-> checks,
                   resp |-> answer("AttributeError", proc.changes, NoErrors)]
             ELSE [events |-> done.events, animal |-> done.animal,
                   nestchecks |-> checks + 1,
                   resp |-> answer("redirect", proc.changes, NoErrors)]
        ELSE same(answer("confirm", proc.changes, NoErrors))

-----------------------------------------------------------------------------------------------------------------------------------------------------
(* Initial store: a sire, a dam and a second male, adults hatched at a     *)
(* nest or at the home location, and two eggs of the pair laid in a nest,  *)
(* the first of which may have hatched or been lost today                  *)

Sire == 1
Dam == 2
Extra == 3
EggA == 4
EggB == 5

Adult(sex) ==
    [sex |-> sex, sire |-> NoAnimal, dam |-> NoAnimal, species |-> "zebf",
     reserved_by |-> NoUser]
Child ==
    [sex |-> UnknownSex, sire |-> Sire, dam |-> Dam, species |-> "zebf",
     reserved_by |-> NoUser]

Idle == PlainResponse("none", "GET", "none", Snapshot(<<>>, <<>>, 0))

\* the server workers that may each run a nest_check request
Workers == {"A", "B"}
IdleWorker == [pc |-> "idle"]
NoSessions == [w \in Workers |-> IdleWorker]

InitAnimals ==
    (Sire :> Adult(Male)) @@ (Dam :> Adult(Female)) @@ (Extra :> Adult(Male))
    @@ (EggA :> Child) @@ (EggB :> Child)

InitEvents(sireLoc, damLoc, extraLoc, eggLoc, eggDate, fate) ==
    << Event(Sire, -AdultDays, HatchStatus, sireLoc),
       Event(Dam, -AdultDays, HatchStatus, damLoc),
       Event(Extra, -AdultDays, HatchStatus, extraLoc),
       Event(EggA, -1, LaidStatus, "N1"),
       Event(EggB, eggDate, LaidStatus, eggLoc) >>
    \o (IF fate = HatchStatus THEN <<Event(EggA, 0, HatchStatus, NoLoc)>>
        ELSE IF fate = LostStatus THEN <<Event(EggA, 0, LostStatus, "N1")>>
        ELSE <<>>)

Init ==
    /\ today = 0
    /\ animal = InitAnimals
    /\ \E sireLoc \in {Home, "N1"}, damLoc \in {Home, "N1"},
          extraLoc \in {Home, "N1"}, eggLoc \in Nests, eggDate \in {-2, 0},
          fate \in {LaidStatus, HatchStatus, LostStatus} :
          /\ extraLoc = "N1" => sireLoc = "N1" /\ damLoc = "N1"
          /\ eggLoc = "N2" => eggDate = -2
          /\ events = InitEvents(sireLoc, damLoc, extraLoc, eggLoc, eggDate,
                                 fate)
    /\ nestchecks = 0
    /\ pairings = <<>>
    /\ status_rows = AllStatuses
    /\ session = NoSessions
    /\ resp = Idle

-----------------------------------------------------------------------------
(* Actions *)

\* nest_check, GET: the initial view
NestCheckGet ==
    LET tab == TabulateLocations(events, CheckSince(today), today)
    IN  /\ resp' = Response("nest_check", "GET", "initial",
                            NestCheckInitial(tab.nest_data), NoCounts, FALSE, FALSE,
                            NoChanges, NoErrors,
                            Snapshot(events, animal, nestchecks))
        /\ UNCHANGED <<today, animal, events, nestchecks, pairings, status_rows,
                       session>>

\* the recorder form of the request: absent or invalid, valid without the
\* confirmation flag, valid with it
UserForms == {"invalid", "unconfirmed", "confirmed"}

\* nest_check, POST: the counts of every nest and the recorder form are the
\* request's data
NestCheckPostOf(subs, users) ==
    \E tab \in {TabulateLocations(events, CheckSince(today), today)} :
    \E initial \in {NestCheckInitial(tab.nest_data)} :
    \E sub \in subs, user \in users :
    \E r \in {NestCheckPostResult(events, animal, nestchecks, today,
                                  tab.nest_data, initial, sub,
                                  user # "invalid", user = "confirmed")} :
        /\ r.nestchecks <= MaxChecks
        /\ Cardinality(DOMAIN r.animal) <= MaxAnimals
        /\ events' = r.events
        /\ animal' = r.animal
        /\ nestchecks' = r.nestchecks
        /\ resp' = r.resp
        /\ UNCHANGED <<today, pairings, status_rows, session>>

NestCheckPost == NestCheckPostOf(Submissions, UserForms)

Next ==
    \/ NestCheckGet
    \/ NestCheckPost

Spec == Init /\ [][Next]_vars

-----------------------------------------------------------------------------
(* What the claims speak of: the last nest-check POST, and the occupancy   *)
(* of the nests before it, recomputed from the Event table as sets         *)

IsPost == resp.view = "nest_check" /\ resp.method = "POST"

\* the counts passed validation: the confirmation page, or the commit
Accepted == IsPost /\ resp.outcome \in {"confirm", "redirect", "AttributeError"}

\* the user is back on the initial view
Rejected == IsPost /\ resp.outcome = "initial"

Confirmed == IsPost /\ resp.user_valid /\ resp.confirmed

PriorEvents == SubSeq(events, 1, resp.pre.events)

PriorIn(n, groups) ==
    {a \in 1..MaxAnimals : /\ PlacedAt(PriorEvents, a, today, n)
                           /\ AgeGroup(PriorEvents, a, today) \in groups}

PriorEggs(n) == PriorIn(n, {"egg"})
PriorChicks(n) == PriorIn(n, AgeGroups \ {"egg", "adult"})
PriorAdults(n) == PriorIn(n, {"adult"})

PriorCounts(n) ==
    [eggs |-> Cardinality(PriorEggs(n)), chicks |-> Cardinality(PriorChicks(n))]

ChickDelta(n) == resp.sub[n].chicks - PriorCounts(n).chicks
EggDelta(n) == resp.sub[n].eggs - PriorCounts(n).eggs + ChickDelta(n)
SameCounts(n) == resp.sub[n] = PriorCounts(n)

ItemsOf(n, statuses) ==
    {i \in 1..Len(resp.changes[n]) : resp.changes[n][i].status \in statuses}
NumItems(n, status) == Cardinality(ItemsOf(n, {status}))

RECURSIVE TotalItemsFrom(_, _)
TotalItemsFrom(statuses, k) ==
    IF k > Len(NestOrder) THEN 0
    ELSE Cardinality(ItemsOf(NestOrder[k], statuses))
         + TotalItemsFrom(statuses, k + 1)
TotalItems(statuses) == TotalItemsFrom(statuses, 1)

NoActions == TotalItems({HatchStatus, LostStatus, LaidStatus}) = 0

EventsCreated == Len(events) - resp.pre.events
AnimalsCreated == Cardinality(DOMAIN animal) - resp.pre.animals
ChecksCreated == nestchecks - resp.pre.checks

StoreUntouched == EventsCreated = 0 /\ AnimalsCreated = 0 /\ ChecksCreated = 0

\* the counts of every nest are ones the form accepts
CountsValid ==
    \A n \in Nests : ChickDelta(n) >= 0 /\ ChickDelta(n) <= PriorCounts(n).eggs

LayAdultsOk(n) ==
    /\ Cardinality(PriorAdults(n)) = 2
    /\ \E m \in PriorAdults(n) : animal[m].sex = Male
    /\ \E f \in PriorAdults(n) : animal[f].sex = Female

\* nest n asks for new eggs without the pair to lay them
BadLay(n) == EggDelta(n) > 0 /\ ~LayAdultsOk(n)

\* the view reaches nest n: no nest before it has failed
Reached(n) ==
    \A k \in 1..Len(NestOrder) : k < NestIndex(n) => ~BadLay(NestOrder[k])

-----------------------------------------------------------------------------
\* C1: a submission whose chick count of some nest is below the prior chick
\* count is rejected, whatever egg count comes with it: the user is back on
\* the initial view with an error on that nest, no hatch, loss or lay action
\* is proposed and nothing is written.
C1_ChickLossRejected ==
    IsPost =>
        \A n \in Nests :
            ChickDelta(n) < 0 =>
                /\ Rejected
                /\ resp.errors[n] # {}
                /\ NoActions
                /\ StoreUntouched

C1_Witness ==
    /\ Rejected
    /\ \E n \in Nests : /\ ChickDelta(n) < 0
                        /\ resp.sub[n].eggs > PriorCounts(n).eggs
                        /\ LayAdultsOk(n)

\* C2: when the effective egg delta of a nest is positive, the submission is
\* accepted only if the adults of that nest on the check date are exactly one
\* male and one female; otherwise it is rejected, and the nest the view
\* reaches carries the message: too many adults when more than 2, else no
\* sire when no male and no dam when no female.
C2_LayNeedsPair ==
    IsPost =>
        \A n \in Nests :
            EggDelta(n) > 0 =>
                /\ Accepted => LayAdultsOk(n)
                /\ ~LayAdultsOk(n) => Rejected /\ NoActions /\ StoreUntouched
                /\ (CountsValid /\ Reached(n)) =>
                     /\ Cardinality(PriorAdults(n)) > 2 =>
                          resp.errors[n] = {"unable to add egg - too many adults"}
                     /\ (/\ Cardinality(PriorAdults(n)) <= 2
                         /\ \A a \in PriorAdults(n) : animal[a].sex # Male) =>
                          "unable to add egg - no sire" \in resp.errors[n]
                     /\ (/\ Cardinality(PriorAdults(n)) <= 2
                         /\ \A a \in PriorAdults(n) : animal[a].sex # Female) =>
                          "unable to add egg - no dam" \in resp.errors[n]
                     /\ LayAdultsOk(n) => resp.errors[n] = {}

C2_Witness ==
    /\ Rejected
    /\ EggDelta("N1") > 0
    /\ Cardinality(PriorAdults("N1")) > 2
    /\ resp.errors["N1"] = {"unable to add egg - too many adults"}

\* C3: in an accepted check, the hatch and loss actions of a nest name
\* distinct animals, each one an egg of that nest before the check (never a
\* chick, juvenile or adult), and there are at most as many of them as the
\* nest had eggs.
C3_ActionsFromPriorEggs ==
    Accepted =>
        \A n \in Nests :
            LET idx == ItemsOf(n, {HatchStatus, LostStatus})
            IN  /\ \A i \in idx : resp.changes[n][i].animal \in PriorEggs(n)
                /\ \A i, j \in idx :
                      i # j => resp.changes[n][i].animal # resp.changes[n][j].animal
                /\ Cardinality(idx) <= Cardinality(PriorEggs(n))

C3_Witness ==
    /\ Accepted
    /\ \E n \in Nests : NumItems(n, HatchStatus) >= 1 /\ NumItems(n, LostStatus) >= 1

\* C4: a submission whose chick count of some nest rises by more than the
\* nest's prior egg count is rejected: no action is proposed and nothing is
\* written.
C4_NoHatchWithoutEgg ==
    IsPost =>
        \A n \in Nests :
            ChickDelta(n) > PriorCounts(n).eggs =>
                /\ Rejected
                /\ resp.errors[n] # {}
                /\ NoActions
                /\ StoreUntouched

C4_Witness ==
    /\ Rejected
    /\ PriorCounts("N1") = [eggs |-> 1, chicks |-> 0]
    /\ resp.sub["N1"] = [eggs |-> 0, chicks |-> 2]

\* a nest whose chick count rises by k while its egg count falls by k
HatchAlone(n) == ChickDelta(n) > 0 /\ EggDelta(n) = 0

\* C5: a nest whose chick count rises by k and whose egg count falls by
\* exactly k gets no error and, in an accepted check, exactly k hatch
\* actions, no loss action and no lay action; a check made of such nests and
\* unchanged nests is accepted.
C5_HatchIsNotLoss ==
    IsPost =>
        /\ \A n \in Nests :
              HatchAlone(n) =>
                  /\ resp.errors[n] = {}
                  /\ Accepted =>
                        /\ NumItems(n, HatchStatus) = ChickDelta(n)
                        /\ NumItems(n, LostStatus) = 0
                        /\ NumItems(n, LaidStatus) = 0
        /\ (\A n \in Nests : HatchAlone(n) \/ SameCounts(n)) => Accepted

C5_Witness ==
    /\ Accepted
    /\ PriorCounts("N1") = [eggs |-> 1, chicks |-> 0]
    /\ resp.sub["N1"] = [eggs |-> 0, chicks |-> 1]
    /\ NumItems("N1", HatchStatus) = 1

\* C6: in an accepted check, a nest with effective egg delta e < 0 gets
\* exactly -e loss actions and no lay action, a nest with e > 0 gets exactly
\* e lay actions and no loss action, and no nest gets both.
C6_LossOrLay ==
    Accepted =>
        \A n \in Nests :
            /\ EggDelta(n) < 0 => /\ NumItems(n, LostStatus) = -EggDelta(n)
                                  /\ NumItems(n, LaidStatus) = 0
            /\ EggDelta(n) > 0 => /\ NumItems(n, LaidStatus) = EggDelta(n)
                                  /\ NumItems(n, LostStatus) = 0
            /\ ~(NumItems(n, LaidStatus) > 0 /\ NumItems(n, LostStatus) > 0)

C6_Witness ==
    /\ Accepted
    /\ EggDelta("N1") = 2 /\ NumItems("N1", LaidStatus) = 2
    /\ NumItems("N1", HatchStatus) = 0
    /\ EggDelta("N2") = -1 /\ NumItems("N2", LostStatus) = 1

\* C7: a nest whose submitted counts equal its reconstructed counts gets no
\* error and no lay, hatch or loss action, whatever adults it holds; a check
\* in which every nest is so is accepted.
C7_NoChangeNoAction ==
    IsPost =>
        /\ \A n \in Nests :
              SameCounts(n) =>
                  /\ resp.errors[n] = {}
                  /\ ItemsOf(n, {HatchStatus, LostStatus, LaidStatus}) = {}
        /\ (\A n \in Nests : SameCounts(n)) => Accepted /\ NoActions

C7_Witness ==
    /\ Accepted
    /\ \A n \in Nests : SameCounts(n)
    /\ Cardinality(PriorAdults("N1")) = 3
    /\ PriorCounts("N1").chicks = 1

\* C8: a confirmed check in which every nest has zero deltas is committed:
\* it creates no Event, no Animal and exactly one NestCheck row.
C8_ZeroDeltaCommit ==
    (Confirmed /\ \A n \in Nests : SameCounts(n)) =>
        /\ resp.outcome = "redirect"
        /\ EventsCreated = 0
        /\ AnimalsCreated = 0
        /\ ChecksCreated = 1

C8_Witness ==
    /\ Confirmed
    /\ \A n \in Nests : SameCounts(n)
    /\ resp.outcome = "redirect"
    /\ PriorCounts("N1").eggs >= 1

\* C9: every confirmed nest check that passes validation creates exactly one
\* NestCheck row, however many nests it has and however many actions it
\* commits.
C9_OneNestCheckPerPass ==
    (Confirmed /\ Accepted) => ChecksCreated = 1

\* C10: a confirmed nest check that passes validation persists every
\* proposed action: one new Event per hatch, loss and lay action and one new
\* Animal per lay action.
C10_CommitPersistsActions ==
    (Confirmed /\ Accepted) =>
        /\ resp.outcome = "redirect"
        /\ EventsCreated = TotalItems({HatchStatus, LostStatus, LaidStatus})
        /\ AnimalsCreated = TotalItems({LaidStatus})

\* C11: a nest-check POST that does not carry both a valid recorder and the
\* confirmation flag writes nothing, also when its counts are valid and it
\* proposes actions: it creates no Event, no Animal and no NestCheck.  Only a
\* POST with the confirmation flag changes the store.
C11_PreviewCommitsNothing ==
    /\ (IsPost /\ ~Confirmed) => StoreUntouched
    /\ (resp.view = "nest_check" /\ ~StoreUntouched) => Confirmed
    /\ (Accepted /\ ~Confirmed) => resp.outcome = "confirm"

C11_Witness ==
    /\ Accepted
    /\ resp.user_valid /\ ~resp.confirmed
    /\ resp.outcome = "confirm"
    /\ NumItems("N1", LaidStatus) >= 1
    /\ NumItems("N2", LostStatus) >= 1
    /\ StoreUntouched

\* the counts of nest n are ones the form refuses
FormInvalid(n) == ChickDelta(n) < 0 \/ ChickDelta(n) > PriorCounts(n).eggs

FailsValidation(n) == FormInvalid(n) \/ BadLay(n)

\* C12: when some nest of a nest-check POST fails validation (its chicks fall,
\* its chicks rise by more than its eggs, or it asks for eggs without the
\* pair), the whole POST is rejected, whatever the other nests hold and
\* whether or not the confirmation flag is set: no action is proposed, no
\* Event, Animal or NestCheck is created, and the initial view comes back
\* with an error on some failing nest and on no other nest.
C12_NoPartialCommit ==
    IsPost =>
        /\ (\E n \in Nests : FailsValidation(n)) =>
              /\ Rejected
              /\ NoActions
              /\ StoreUntouched
              /\ \E n \in Nests : resp.errors[n] # {}
        /\ \A n \in Nests : resp.errors[n] # {} => FailsValidation(n)

C12_Witness ==
    /\ Rejected
    /\ Confirmed
    /\ CountsValid
    /\ HatchAlone("N1")
    /\ BadLay("N2")
    /\ resp.errors["N2"] # {}
    /\ StoreUntouched

\* C13: a nest-check POST whose counts are valid for every nest and that
\* carries a valid recorder and the confirmation flag is committed: the
\* response is the redirect to the nest summary, every proposed action is
\* persisted and one NestCheck row is saved; it ends neither in an error nor
\* with a part of its actions written.
C13_ConfirmedIsCommitted ==
    (Confirmed /\ \A n \in Nests : ~FailsValidation(n)) =>
        /\ resp.outcome = "redirect"
        /\ ChecksCreated = 1
        /\ EventsCreated = TotalItems({HatchStatus, LostStatus, LaidStatus})
        /\ AnimalsCreated = TotalItems({LaidStatus})

\* C19: a confirmed nest-check POST that follows a confirmed POST with the
\* same counts is committed like the first one, nothing recognises the
\* repetition: when both pass validation, the two requests together leave
\* two new NestCheck rows.
C19_NoDeduplication ==
    [][(/\ Confirmed /\ Accepted
        /\ Confirmed' /\ Accepted'
        /\ resp'.sub = resp.sub)
       => nestchecks' = resp.pre.checks + 2]_vars

-----------------------------------------------------------------------------
(* Occupancy reconstruction over an event history: events are entered with *)
(* new_event_entry and the nests are tabulated by nest_report              *)

default_days == 4
NoDate == -1
Days == 0..MaxDay

\* the (status, location) pairs of the events entered
EntryKinds ==
    {<<MovedStatus, "N1">>, <<MovedStatus, "N2">>, <<MovedStatus, Home>>,
     <<NoteStatus, NoLoc>>, <<DiedStatus, NoLoc>>}

Store == <<animal, events, nestchecks, pairings, status_rows>>

\* new_event_entry, POST: a valid form is saved as an Event of the animal
EventEntryOf(dates, kinds, cap) ==
    \E a \in DOMAIN animal, date \in dates, kind \in kinds, valid \in BOOLEAN :
        /\ Len(events) < cap
        /\ IF valid /\ kind[1] \in status_rows
           THEN /\ events' = SaveEvent(events, Event(a, date, kind[1], kind[2]))
                /\ resp' = PlainResponse("new_event_entry", "POST", "redirect",
                                         Snapshot(events, animal, nestchecks))
           ELSE /\ events' = events
                /\ resp' = PlainResponse("new_event_entry", "POST", "form",
                                         Snapshot(events, animal, nestchecks))
        /\ UNCHANGED <<today, animal, nestchecks, pairings, status_rows, session>>

EventEntry == EventEntryOf(Days, EntryKinds, MaxEvents)

\* until and since of nest_report: the parameters, or today and
\* default_days before until
ReportUntil(param, day) == IF param = NoDate THEN day ELSE param
ReportSince(param, until) == IF param = NoDate THEN until - default_days ELSE param

\* the since and until parameters of the requests: both given, or none
ReportParams == (Days \X Days) \cup {<<NoDate, NoDate>>}

ReportResponse(since, until, tab, again, pre) ==
    [view |-> "nest_report", method |-> "GET", outcome |-> "report",
     since |-> since, until |-> until, dates |-> tab.dates,
     nest_data |-> tab.nest_data, again |-> again, pre |-> pre]

\* nest_report, GET; again: the request before this one was a nest_report
\* of the same range
NestReport ==
    \E params \in ReportParams :
    \E until \in {ReportUntil(params[2], today)} :
    \E since \in {ReportSince(params[1], until)} :
    \E tab \in {TabulateLocations(events, since, until)} :
        /\ resp' = ReportResponse(since, until, tab,
                        /\ resp.view = "nest_report"
                        /\ resp.since = since
                        /\ resp.until = until,
                        Snapshot(events, animal, nestchecks))
        /\ UNCHANGED <<today, animal, events, nestchecks, pairings, status_rows,
                       session>>

\* two birds, the first hatched in a nest on day 0, the second in a nest or
\* at the home location on day 0 or 1
OccAnimals == (Sire :> Adult(Male)) @@ (Dam :> Adult(Female))

InitOcc ==
    /\ today = MaxDay
    /\ animal = OccAnimals
    /\ \E loc \in {"N1", Home}, born \in {0, 1} :
          events = <<Event(Sire, 0, HatchStatus, "N1"),
                     Event(Dam, born, HatchStatus, loc)>>
    /\ nestchecks = 0
    /\ pairings = <<>>
    /\ status_rows = AllStatuses
    /\ session = NoSessions
    /\ resp = Idle

NextOcc ==
    \/ EventEntry
    \/ NestReport

SpecOcc == InitOcc /\ [][NextOcc]_vars

-----------------------------------------------------------------------------
(* The last nest_report, and the event history read as sets *)

IsReport == resp.view = "nest_report"

ReportDays == 1..Len(resp.dates)
ReportNests == 1..Len(resp.nest_data)

\* animal a is listed for nest number k on the i-th day of the report
InReport(a, k, i) ==
    \E g \in AgeGroups :
        \E j \in 1..Len(resp.nest_data[k].days[i].animals[g]) :
            resp.nest_data[k].days[i].animals[g][j] = a

EventsOf(a, d) ==
    {e \in 1..Len(events) : events[e].animal = a /\ events[e].date <= d}

DeadBy(a, d) == \E e \in EventsOf(a, d) : Removes(events[e].status)

AliveOn(a, d) == EventsOf(a, d) # {} /\ ~DeadBy(a, d)

\* the latest event of a up to day d that carries a location is at n
ResolvedAt(a, d, n) ==
    \E e \in EventsOf(a, d) :
        /\ events[e].location = n
        /\ \A f \in EventsOf(a, d) \ {e} :
              events[f].location # NoLoc =>
                  \/ events[f].date < events[e].date
                  \/ events[f].date = events[e].date /\ f < e

\* C14: in a nest report, an animal with a death event on or before a day of
\* the report is listed in no nest on that day, whatever other events it has
\* (also a move into a nest dated after its death).
C14_DeadNeverInNest ==
    IsReport =>
        \A i \in ReportDays, k \in ReportNests, a \in DOMAIN animal :
            DeadBy(a, resp.dates[i]) => ~InReport(a, k, i)

C14_Witness ==
    /\ IsReport
    /\ \E i \in ReportDays, a \in DOMAIN animal :
          /\ \E k \in ReportNests, j \in ReportDays : j < i /\ InReport(a, k, j)
          /\ \E e, f \in EventsOf(a, resp.dates[i]) :
                /\ events[e].status = DiedStatus
                /\ events[f].location \in Nests
                /\ events[f].date > events[e].date

\* C15: in a nest report, an animal is listed for nest N on day d exactly
\* when it is alive on d and its latest event up to d that carries a location
\* is at N; it is listed once, and in one nest at most.  Events without a
\* location do not move it, and a later move to a location that is no nest
\* takes it out of every nest.
C15_LatestLocatedEvent ==
    IsReport =>
        \A i \in ReportDays, k \in ReportNests, a \in DOMAIN animal :
            /\ resp.nest_data[k].location = NestOrder[k]
            /\ InReport(a, k, i) <=>
                  /\ AliveOn(a, resp.dates[i])
                  /\ ResolvedAt(a, resp.dates[i], NestOrder[k])
            /\ InReport(a, k, i) =>
                  \A m \in ReportNests \ {k} : ~InReport(a, m, i)

C15_Witness ==
    /\ IsReport
    /\ \E i \in ReportDays, a, b \in DOMAIN animal, k \in ReportNests :
          /\ InReport(a, k, i)
          /\ \E e, f \in EventsOf(a, resp.dates[i]) :
                /\ events[e].location = NestOrder[k]
                /\ events[f].location = NoLoc
                /\ events[f].date > events[e].date
          /\ \A m \in ReportNests : ~InReport(b, m, i)
          /\ AliveOn(b, resp.dates[i])
          /\ \E e, f \in EventsOf(b, resp.dates[i]) :
                /\ events[e].location \in Nests
                /\ events[f].location = Home
                /\ events[f].date > events[e].date

C17_OneRecordPerDay ==
    IsReport =>
        /\ Len(resp.dates) = IF resp.since > resp.until THEN 0
                              ELSE resp.until - resp.since + 1
        /\ \A i \in ReportDays : resp.dates[i] = resp.since + i - 1
        /\ Len(resp.nest_data) = Len(NestOrder)
        /\ \A k \in ReportNests :
              /\ Len(resp.nest_data[k].days) = Len(resp.dates)
              /\ \A i \in ReportDays :
                    resp.nest_data[k].days[i]
                        = LocData(events, resp.dates[i], NestOrder[k])

C17_Witness ==
    /\ IsReport
    /\ resp.since = 0 /\ resp.until = MaxDay
    /\ Len(resp.dates) = MaxDay + 1
    /\ \E k \in ReportNests, a \in DOMAIN animal :
          /\ InReport(a, k, 1)
          /\ ~InReport(a, k, 2)
          /\ InReport(a, k, 3)

-----------------------------------------------------------------------------
(* Two server workers, each running one nest_check POST: the view reads    *)
(* the store (lines 380-481) and later writes it (lines 485-516), with no  *)
(* lock and no transaction around the two                                  *)

Finished(outcome, initial, sub, confirmed, changes, pre) ==
    [pc |-> "done", outcome |-> outcome, initial |-> initial, sub |-> sub,
     confirmed |-> confirmed, changes |-> changes, pre |-> pre]

\* the first part of a POST of worker w: reconstruct, validate, diff
RaceRead ==
    \E w \in {v \in Workers : session[v].pc = "idle"} :
    \E tab \in {TabulateLocations(events, CheckSince(today), today)} :
    \E initial \in {NestCheckInitial(tab.nest_data)} :
    \E sub \in Submissions, user \in UserForms :
    \E proc \in {ProcessNests(animal, tab.nest_data, initial, sub, 1, NoChanges)} :
        LET formErrors == [n \in Nests |-> FormErrors(initial[NestIndex(n)], sub[n])]
            confirmed == CommitRequested(user # "invalid", user = "confirmed")
            pre == Snapshot(events, animal, nestchecks)
            finished(outcome, changes) ==
                Finished(outcome, initial, sub, confirmed, changes, pre)
        IN  /\ session' = [session EXCEPT ![w] =
                   IF ~FormsetIsValid(formErrors) \/ proc.status = "invalid"
                   THEN finished("initial", NoChanges)
                   ELSE IF proc.status = "IndexError"
                   THEN finished("IndexError", NoChanges)
                   ELSE IF confirmed
                   THEN [finished("none", proc.changes) EXCEPT !.pc = "commit"]
                   ELSE finished("confirm", proc.changes)]
            /\ UNCHANGED <<today, animal, events, nestchecks, pairings,
                           status_rows, resp>>

\* the second part of a confirmed POST of worker w: the commit loop and the
\* NestCheck row
RaceCommit ==
    \E w \in Workers :
        /\ session[w].pc = "commit"
        /\ \E done \in {CommitItems(ItemsFrom(session[w].changes, 1), events,
                                      animal, today)} :
              /\ Cardinality(DOMAIN done.animal) <= MaxAnimals
              /\ events' = done.events
              /\ animal' = done.animal
              /\ nestchecks' = IF done.raised THEN nestchecks ELSE nestchecks + 1
              /\ session' = [session EXCEPT ![w] =
                     [@ EXCEPT !.pc = "done",
                               !.outcome = IF done.raised THEN "AttributeError"
                                           ELSE "redirect"]]
        /\ nestchecks' <= MaxChecks
        /\ UNCHANGED <<today, pairings, status_rows, resp>>

\* the pair in nest N1, with or without a second male and a first egg
InitRace ==
    /\ today = 0
    /\ animal = InitAnimals
    /\ \E extraLoc \in {Home, "N1"}, fate \in {LaidStatus, LostStatus} :
          events = InitEvents("N1", "N1", extraLoc, "N2", -2, fate)
    /\ nestchecks = 0
    /\ pairings = <<>>
    /\ status_rows = AllStatuses
    /\ session = NoSessions
    /\ resp = Idle

NextRace ==
    \/ RaceRead
    \/ RaceCommit

SpecRace == InitRace /\ [][NextRace]_vars

\* the eggs nest n holds today, from the Event table
EggsIn(n) ==
    {a \in 1..MaxAnimals : /\ PlacedAt(events, a, today, n)
                           /\ AgeGroup(events, a, today) = "egg"}

\* both workers have answered a confirmed POST of the same counts, computed
\* from the same state of the store, that adds eggs to nest n
SameLayTwice(n) ==
    /\ \A w \in Workers : session[w].pc = "done" /\ session[w].confirmed
    /\ session["A"].sub = session["B"].sub
    /\ session["A"].pre = session["B"].pre
    /\ session["A"].initial = session["B"].initial
    /\ \A w \in Workers : session[w].outcome \in {"redirect", "AttributeError"}
    /\ \E i \in 1..Len(session["A"].changes[n]) :
          session["A"].changes[n][i].status = LaidStatus

\* C18: nothing serialises two nest checks: when two workers have each read
\* the same state of a nest and each confirmed the same increase of its eggs,
\* both commits go through (each answers with the redirect) and the nest
\* holds more eggs than the count either of them submitted.
C18_BothLaysCommitted ==
    \A n \in Nests :
        SameLayTwice(n) =>
            /\ \A w \in Workers : session[w].outcome = "redirect"
            /\ Cardinality(EggsIn(n)) > session["A"].sub[n].eggs

-----------------------------------------------------------------------------
(* views.PairingEntry and views.PairingClose, with or without the 'moved'  *)
(* row in the Status table                                                 *)

\* mutant: the move events are made without looking the status up
MoveEventsWithoutLookup(rows, sire, dam, date, location) ==
    <<Event(sire, date, MovedStatus, location),
      Event(dam, date, MovedStatus, location)>>

\* try: Status.objects.get(name=MOVED_EVENT_NAME) / except: print / else:
\* the move events of sire and dam
MoveEvents(rows, sire, dam, date, location) ==
    IF MovedStatus \in rows
    THEN <<Event(sire, date, MovedStatus, location),
           Event(dam, date, MovedStatus, location)>>
    ELSE <<>>

Pairing(sire, dam, began, purpose) ==
    [sire |-> sire, dam |-> dam, began |-> began, ended |-> NoDate,
     purpose |-> purpose, comment |-> ""]

PairingResponse(view, pk, date, location, entered_by, comment) ==
    [view |-> view, method |-> "POST", outcome |-> "redirect", pk |-> pk,
     date |-> date, location |-> location, entered_by |-> entered_by,
     comment |-> comment,
     pre |-> [events |-> Len(events), pairings |-> pairings]]

\* the locations a pairing form offers; NoLoc: the field is left empty
PairingLocations == {"N1", Home, NoLoc}

\* animal.pairings(): the rows of the Pairing table a is the sire or the dam of
PairingsOf(rows, a) ==
    {p \in 1..Len(rows) : rows[p].sire = a \/ rows[p].dam = a}

\* the pairing has no end date
IsActive(pairing) == pairing.ended = NoDate

\* the window [began, ended) of the pairing holds the day
Overlaps(pairing, day) ==
    ~IsActive(pairing) /\ pairing.began <= day /\ day < pairing.ended

\* NewPairingForm.clean: the sire is a living adult male, the dam a living
\* adult female, and neither is in an active pairing nor in a pairing whose
\* window holds the day the new one begins
NewPairingFormValid(sire, dam, began) ==
    /\ animal[sire].sex = Male
    /\ animal[dam].sex = Female
    /\ \A a \in {sire, dam} :
          /\ ExistedOn(events, a, today)
          /\ AgeGroup(events, a, today) = "adult"
          /\ \A p \in PairingsOf(pairings, a) :
                ~IsActive(pairings[p]) /\ ~Overlaps(pairings[p], began)

\* PairingEntry.form_valid, for the cleaned data of a valid form
PairingEntryFormValid(sire, dam, began, location, entered_by) ==
    /\ events' = IF location # NoLoc /\ entered_by
                  THEN SaveEvents(events, MoveEvents(status_rows, sire, dam,
                                                     began, location))
                  ELSE events
    /\ pairings' = Append(pairings, Pairing(sire, dam, began, "testing"))
    /\ resp' = PairingResponse("PairingEntry", Len(pairings) + 1, began,
                               location, entered_by, "")
    /\ UNCHANGED <<today, animal, nestchecks, status_rows, session>>

\* PairingEntry, POST of a form the sire and the dam of which pass validation
PairingEntry ==
    \E began \in Days, location \in PairingLocations, entered_by \in BOOLEAN :
        /\ Len(pairings) < MaxPairings
        /\ NewPairingFormValid(Sire, Dam, began)
        /\ PairingEntryFormValid(Sire, Dam, began, location, entered_by)

\* mutant: closing a pairing that is closed already opens it again
EndedPairingReopens(pairing, ended, comment) ==
    [pairing EXCEPT !.ended = IF IsActive(pairing) THEN ended ELSE NoDate,
                    !.comment = comment]

\* self.pairing.ended = data["ended"]; self.pairing.comment = data["comment"]
EndedPairing(pairing, ended, comment) ==
    [pairing EXCEPT !.ended = ended, !.comment = comment]

\* PairingClose.form_valid, for the pairing of the URL and the cleaned data
\* of a valid form
PairingCloseFormValid(pk, ended, location, entered_by, comment) ==
    /\ events' = IF /\ pairings[pk].ended = NoDate
                     /\ location # NoLoc
                     /\ entered_by
                  THEN SaveEvents(events,
                           MoveEvents(status_rows, pairings[pk].sire,
                                      pairings[pk].dam, ended, location))
                  ELSE events
    /\ pairings' = [pairings EXCEPT
                       ![pk] = EndedPairing(pairings[pk], ended, comment)]
    /\ resp' = PairingResponse("PairingClose", pk, ended, location,
                               entered_by, comment)
    /\ UNCHANGED <<today, animal, nestchecks, status_rows, session>>

\* PairingClose, POST; EndPairingForm takes no end date before the beginning
PairingClose ==
    \E pk \in 1..Len(pairings), ended \in Days, location \in PairingLocations,
       entered_by \in BOOLEAN, comment \in {"", "split"} :
        /\ ended >= pairings[pk].began
        /\ PairingCloseFormValid(pk, ended, location, entered_by, comment)

\* an adult sire and dam at the home location; the Status table with or
\* without its 'moved' row
InitPair ==
    /\ today = MaxDay
    /\ animal = OccAnimals
    /\ events = <<Event(Sire, -AdultDays, HatchStatus, Home),
                  Event(Dam, -AdultDays, HatchStatus, Home)>>
    /\ nestchecks = 0
    /\ pairings = <<>>
    /\ status_rows \in {AllStatuses, AllStatuses \ {MovedStatus}}
    /\ session = NoSessions
    /\ resp = Idle

NextPair ==
    \/ PairingEntry
    \/ PairingClose

SpecPair == InitPair /\ [][NextPair]_vars

IsPairingRequest == resp.view \in {"PairingEntry", "PairingClose"}

-----------------------------------------------------------------------------
(* Pairings of two males and two females: every POST of the PairingEntry   *)
(* view, valid or not, and the closing of any pairing                      *)

MaxPairRows == 3     \* cap on the number of Pairing rows of this history
Hen == 4

PairAnimals ==
    (Sire :> Adult(Male)) @@ (Dam :> Adult(Female)) @@ (Extra :> Adult(Male))
    @@ (Hen :> Adult(Female))

\* FormView.form_invalid: the form is shown again with its errors
PairingFormResponse(sire, dam, began) ==
    [view |-> "PairingEntry", method |-> "POST", outcome |-> "form",
     sire |-> sire, dam |-> dam, date |-> began,
     pre |-> [events |-> Len(events), pairings |-> pairings]]

\* PairingEntry, POST: FormView.post calls form_valid for a valid form and
\* form_invalid for any other
PairingEntryPost ==
    \E sire \in DOMAIN animal, dam \in DOMAIN animal, began \in Days :
        /\ Len(pairings) < MaxPairRows
        /\ IF NewPairingFormValid(sire, dam, began)
           THEN PairingEntryFormValid(sire, dam, began, NoLoc, TRUE)
           ELSE /\ resp' = PairingFormResponse(sire, dam, began)
                /\ UNCHANGED <<today, animal, events, nestchecks, pairings,
                               status_rows, session>>

\* PairingClose, POST, of any pairing, open or closed
PairingClosePost ==
    \E pk \in 1..Len(pairings), ended \in Days :
        /\ ended >= pairings[pk].began
        /\ PairingCloseFormValid(pk, ended, NoLoc, TRUE, "")

InitPairs ==
    /\ today = MaxDay
    /\ animal = PairAnimals
    /\ events = <<Event(Sire, -AdultDays, HatchStatus, Home),
                  Event(Dam, -AdultDays, HatchStatus, Home),
                  Event(Extra, -AdultDays, HatchStatus, Home),
                  Event(Hen, -AdultDays, HatchStatus, Home)>>
    /\ nestchecks = 0
    /\ pairings = <<>>
    /\ status_rows = AllStatuses
    /\ session = NoSessions
    /\ resp = Idle

NextPairs ==
    \/ PairingEntryPost
    \/ PairingClosePost

SpecPairs == InitPairs /\ [][NextPairs]_vars

IsEntry == resp.view = "PairingEntry"

\* the sire, the dam and the first day of the last PairingEntry request
EntrySire == IF resp.outcome = "form" THEN resp.sire ELSE pairings[resp.pk].sire
EntryDam == IF resp.outcome = "form" THEN resp.dam ELSE pairings[resp.pk].dam

ActivePairingsOf(rows, a) == {p \in PairingsOf(rows, a) : IsActive(rows[p])}

\* before the request, a was in an active pairing or in one whose window
\* holds the day
Engaged(a, day) ==
    \E p \in PairingsOf(resp.pre.pairings, a) :
        \/ IsActive(resp.pre.pairings[p])
        \/ Overlaps(resp.pre.pairings[p], day)

TwoActivePairings ==
    \E a, b \in DOMAIN animal :
        /\ ActivePairingsOf(pairings, a) # {}
        /\ ActivePairingsOf(pairings, b) # {}
        /\ ActivePairingsOf(pairings, a) # ActivePairingsOf(pairings, b)

-----------------------------------------------------------------------------
(* The Event table under every operation that writes it: nest_check,       *)
(* PairingEntry, PairingClose, ReservationEntry and new_event_entry        *)

MaxLog == 7          \* cap on the number of Event rows of this history

\* ReservationEntry.form_valid: the animal is reserved by data["entered_by"]
\* (released when it is None) and a reservation Event of the animal is saved
ReservationEntry ==
    \E a \in {Sire, EggA}, date \in {today}, entered_by \in Users \cup {NoUser} :
        /\ Len(events) < MaxLog
        /\ animal' = [animal EXCEPT ![a].reserved_by = entered_by]
        /\ events' = SaveEvent(events, Event(a, date, ReservationStatus, NoLoc))
        /\ resp' = PlainResponse("ReservationEntry", "POST", "redirect",
                                 Snapshot(events, animal, nestchecks))
        /\ UNCHANGED <<today, nestchecks, pairings, status_rows, session>>

\* the counts of the nest checks of this history: nest N2 keeps its egg, nest
\* N1 has no chick and any number of eggs
LogSubmissions ==
    {sub \in Submissions : /\ sub["N2"] = [eggs |-> 1, chicks |-> 0]
                           /\ sub["N1"].chicks = 0}

LogNestCheck == NestCheckPostOf(LogSubmissions, {"confirmed"})

LogEventEntry ==
    EventEntryOf({today}, {<<MovedStatus, "N2">>, <<DiedStatus, NoLoc>>}, MaxLog)

LogPairingEntry ==
    \E location \in {"N2", NoLoc} :
        /\ Len(pairings) < MaxPairings
        /\ Len(events) + 2 <= MaxLog
        /\ NewPairingFormValid(Sire, Dam, today)
        /\ PairingEntryFormValid(Sire, Dam, today, location, TRUE)

LogPairingClose ==
    \E pk \in 1..Len(pairings), location \in {Home, NoLoc} :
        /\ Len(events) + 2 <= MaxLog
        /\ PairingCloseFormValid(pk, today, location, TRUE, "")

\* the pair and an egg in nest N1, an egg in nest N2
InitLog ==
    /\ today = 0
    /\ animal = InitAnimals
    /\ events = InitEvents("N1", "N1", Home, "N2", -2, LaidStatus)
    /\ nestchecks = 0
    /\ pairings = <<>>
    /\ status_rows = AllStatuses
    /\ session = NoSessions
    /\ resp = Idle

NextLog ==
    \/ LogNestCheck
    \/ LogEventEntry
    \/ LogPairingEntry
    \/ LogPairingClose
    \/ ReservationEntry

SpecLog == InitLog /\ [][NextLog]_vars

\* C22: Events are append-only: a nest check, a pairing entry, a pairing
\* close, a reservation entry or an event entry leaves every Event row that
\* was recorded before it as it was, in its place; it only adds rows.
C22_EventsAppendOnly ==
    [][/\ Len(events') >= Len(events)
       /\ \A i \in 1..Len(events) : events'[i] = events[i]]_vars

\* a reservation Event was added to an animal that has a laying Event and a
\* move Event, which are still there
C22_Witness ==
    /\ resp.view = "ReservationEntry"
    /\ Len(events) = resp.pre.events + 1
    /\ events[Len(events)].status = ReservationStatus
    /\ \E i, j \in 1..resp.pre.events :
          /\ i < j
          /\ events[i].animal = events[Len(events)].animal
          /\ events[j].animal = events[Len(events)].animal
          /\ events[i].status = LaidStatus
          /\ events[j].status = MovedStatus

-----------------------------------------------------------------------------
(* Which eggs a nest check hatches and loses (under Spec)                  *)

\* the egg list of nest n the view pops from: the eggs of the occupancy
\* reconstructed for the check date from the events before the request
PriorEggList(n) == LocData(PriorEvents, today, n).animals["egg"]

\* the day the egg was laid
LaidOn(a) ==
    (CHOOSE e \in {Event(a, d, LaidStatus, n) : d \in -AdultDays..MaxDay, n \in Nests} :
        \E i \in 1..Len(events) : events[i] = e).date

HatchOneLoseOne(n) ==
    /\ Accepted
    /\ Len(PriorEggList(n)) = 2
    /\ LaidOn(PriorEggList(n)[1]) # LaidOn(PriorEggList(n)[2])
    /\ PriorCounts(n).chicks = 0
    /\ resp.sub[n] = [eggs |-> 0, chicks |-> 1]

\* C24: when a check hatches one and loses the other of two eggs of a nest
\* that were laid on different days (submitted eggs 0, chicks 1), the egg
\* laid earlier is the one marked hatched, the egg laid later is the one
\* marked lost, and no egg is added.
C24_EarlierEggHatches ==
    \A n \in Nests :
        HatchOneLoseOne(n) =>
            /\ NumItems(n, HatchStatus) = 1
            /\ NumItems(n, LostStatus) = 1
            /\ NumItems(n, LaidStatus) = 0
            /\ \A i \in ItemsOf(n, {HatchStatus}), j \in ItemsOf(n, {LostStatus}) :
                  LaidOn(resp.changes[n][i].animal)
                      < LaidOn(resp.changes[n][j].animal)

\* C25: the counts the nest-check view starts from, shown by the initial view
\* and used as the baseline of a POST, are those of the occupancy
\* reconstructed for today: for every nest, eggs is the number of its
\* occupants in the egg age group and chicks the number of its occupants
\* that are neither eggs nor adults; the adults are counted in neither, and
\* the count kept for an age group is the length of its animal list.
C25_InitialFromOccupancy ==
    resp.view = "nest_check" =>
        /\ Len(resp.initial) = Len(NestOrder)
        /\ \A k \in 1..Len(NestOrder) :
              LET n == NestOrder[k]
                  locdata == LocData(PriorEvents, today, n)
              IN  /\ resp.initial[k].location = n
                  /\ resp.initial[k].eggs = Cardinality(PriorEggs(n))
                  /\ resp.initial[k].chicks = Cardinality(PriorChicks(n))
                  /\ \A g \in AgeGroups \ {"adult"} :
                        locdata.counts[g] = Len(locdata.animals[g])
                  /\ resp.initial[k].eggs + resp.initial[k].chicks
                        + Len(locdata.animals["adult"])
                        = Cardinality(PriorIn(n, AgeGroups))

C25_Witness ==
    /\ resp.view = "nest_check"
    /\ resp.method = "GET"
    /\ resp.initial[1] = [location |-> "N1", eggs |-> 1, chicks |-> 1]
    /\ Cardinality(PriorAdults("N1")) = 3

\* the lay actions of the last check, in the order the commit takes them
LayList == SelectSeq(ItemsFrom(resp.changes, 1), IsLayItem)

\* C26: every lay action of a nest names as sire the adult male and as dam
\* the adult female that occupy that nest on the check date; when the check
\* is committed, each lay action leaves a new Animal with these two parents,
\* the species of the sire and unknown sex, and a laying Event of that Animal
\* at the nest, dated the check date.
C26_LayNamesTheNestPair ==
    /\ Accepted =>
          \A n \in Nests :
              \A i \in ItemsOf(n, {LaidStatus}) :
                  LET item == resp.changes[n][i]
                  IN  /\ item.location = n
                      /\ item.sire \in PriorAdults(n)
                      /\ animal[item.sire].sex = Male
                      /\ item.dam \in PriorAdults(n)
                      /\ animal[item.dam].sex = Female
    /\ (Confirmed /\ Accepted) =>
          \A k \in 1..Len(LayList) :
              LET id == resp.pre.animals + k
                  item == LayList[k]
              IN  /\ id \in DOMAIN animal
                  /\ animal[id].sire = item.sire
                  /\ animal[id].dam = item.dam
                  /\ animal[id].species = animal[item.sire].species
                  /\ animal[id].sex = UnknownSex
                  /\ \E e \in (resp.pre.events + 1)..Len(events) :
                        events[e] = Event(id, today, LaidStatus, item.location)

\* the counts a nest check would start from now: the occupancy of today,
\* reconstructed from the Event table as it is
CountsNow ==
    NestCheckInitial(TabulateLocations(events, CheckSince(today), today).nest_data)

\* C27: round trip of a commit: after a nest check with valid counts, a valid
\* recorder and the confirmation flag, the occupancy reconstructed for the
\* check date has, for every nest, the egg count and the chick count that
\* were submitted for it.
C27_CommitRoundTrip ==
    (Confirmed /\ Accepted) =>
        \A k \in 1..Len(NestOrder) :
            /\ CountsNow[k].eggs = resp.sub[NestOrder[k]].eggs
            /\ CountsNow[k].chicks = resp.sub[NestOrder[k]].chicks

\* C28: committing the same counts a second time, with nothing written in
\* between, creates no further Event and no new Animal: the deltas of the
\* second POST are computed against the occupancy the first one left.
C28_SecondCommitAddsNothing ==
    [][(/\ Confirmed /\ Accepted
        /\ Confirmed' /\ Accepted'
        /\ resp'.sub = resp.sub)
       => /\ events' = events
          /\ animal' = animal]_vars

-----------------------------------------------------------------------------
(* A nest check whose form was shown before another session wrote an Event *)
(* and is posted after it                                                  *)

MaxStale == 6        \* cap on the number of Event rows of this history

\* the user whose form the history follows
FormUser == "A"

\* mutant: the formset is bound to the counts the form showed at GET
FormsetInitialFromGet(shown, initial) == shown

\* NestCheckFormSet(request.POST, initial=initial): the initial data of the
\* bound formset is the list built by this request
FormsetInitial(shown, initial) == initial

\* nest_check, GET, of the user: the form shows the counts of today
StaleGet ==
    \E tab \in {TabulateLocations(events, CheckSince(today), today)} :
        /\ session' = [session EXCEPT ![FormUser] =
                           [pc |-> "form", shown |-> NestCheckInitial(tab.nest_data)]]
        /\ resp' = Response("nest_check", "GET", "initial",
                            NestCheckInitial(tab.nest_data), NoCounts, FALSE, FALSE,
                            NoChanges, NoErrors,
                            Snapshot(events, animal, nestchecks))
        /\ UNCHANGED <<today, animal, events, nestchecks, pairings, status_rows>>

\* new_event_entry of another session: an animal dies or is moved to nest N1
StaleEventEntry ==
    EventEntryOf({today}, {<<MovedStatus, "N1">>, <<DiedStatus, NoLoc>>}, MaxStale)

\* nest_check, POST, of the form the user was shown
StalePost ==
    /\ session[FormUser].pc = "form"
    /\ \E tab \in {TabulateLocations(events, CheckSince(today), today)} :
       \E initial \in {FormsetInitial(session[FormUser].shown,
                                      NestCheckInitial(tab.nest_data))} :
       \E sub \in Submissions, user \in {"unconfirmed", "confirmed"} :
       \E r \in {NestCheckPostResult(events, animal, nestchecks, today,
                                     tab.nest_data, initial, sub,
                                     TRUE, user = "confirmed")} :
           /\ r.nestchecks <= MaxChecks
           /\ Cardinality(DOMAIN r.animal) <= MaxAnimals
           /\ events' = r.events
           /\ animal' = r.animal
           /\ nestchecks' = r.nestchecks
           /\ resp' = r.resp
           /\ session' = [session EXCEPT ![FormUser].pc = "posted"]
           /\ UNCHANGED <<today, pairings, status_rows>>

\* the pair and an egg in nest N1, an egg in nest N2
InitStale ==
    /\ today = 0
    /\ animal = InitAnimals
    /\ events = InitEvents("N1", "N1", Home, "N2", -2, LaidStatus)
    /\ nestchecks = 0
    /\ pairings = <<>>
    /\ status_rows = AllStatuses
    /\ session = NoSessions
    /\ resp = Idle

NextStale ==
    \/ StaleGet
    \/ StaleEventEntry
    \/ StalePost

SpecStale == InitStale /\ [][NextStale]_vars

\* the last request is the POST of the form the user was shown
PostedForm == IsPost /\ session[FormUser].pc = "posted"

\* the counts the form showed for nest n
Shown(n) ==
    [eggs |-> session[FormUser].shown[NestIndex(n)].eggs,
     chicks |-> session[FormUser].shown[NestIndex(n)].chicks]

\* the user left the counts of nest n as the form showed them, and the nest
\* has changed since
LeftUntouched(n) == resp.sub[n] = Shown(n) /\ Shown(n) # PriorCounts(n)

\* C29: the baseline of a nest-check POST is the occupancy reconstructed
\* when the POST is processed, not the counts its form showed at GET: the
\* deltas of every nest are those of the submitted counts against the state
\* of the store at the POST, so a count the user left as shown, for a nest
\* another session changed in between, becomes lay or loss actions.
C29_BaselineIsPostTime ==
    PostedForm =>
        /\ \A n \in Nests :
              /\ resp.initial[NestIndex(n)].eggs = PriorCounts(n).eggs
              /\ resp.initial[NestIndex(n)].chicks = PriorCounts(n).chicks
        /\ Accepted =>
              \A n \in Nests :
                  /\ NumItems(n, HatchStatus) = Positive(ChickDelta(n))
                  /\ NumItems(n, LaidStatus) = Positive(EggDelta(n))
                  /\ NumItems(n, LostStatus) = Positive(-EggDelta(n))
                  /\ LeftUntouched(n) =>
                        NumItems(n, LaidStatus) + NumItems(n, LostStatus)
                            + NumItems(n, HatchStatus) > 0

C29_Witness ==
    /\ PostedForm
    /\ Accepted
    /\ LeftUntouched("N1")
    /\ Shown("N1") = [eggs |-> 1, chicks |-> 0]
    /\ PriorCounts("N1") = [eggs |-> 2, chicks |-> 0]
    /\ NumItems("N1", LostStatus) = 1

\* the untouched count of a nest that lost its egg in between becomes a lay
StaleLay ==
    /\ PostedForm
    /\ Accepted
    /\ LeftUntouched("N1")
    /\ NumItems("N1", LaidStatus) = 1

-----------------------------------------------------------------------------
(* The listings of one animal in one day of a nest report (under SpecOcc)  *)

\* the places animal a is listed at on the i-th day of the report: nest
\* number, age group, position in the list
Listings(a, i) ==
    {l \in ReportNests \X AgeGroups \X (1..MaxAnimals) :
        /\ l[3] <= Len(resp.nest_data[l[1]].days[i].animals[l[2]])
        /\ resp.nest_data[l[1]].days[i].animals[l[2]][l[3]] = a}

\* C30: on each day of a reconstruction an animal is listed at most once:
\* in one nest at most, once in the list of that nest, and in one age group,
\* the one it has on that day.
C30_ListedOnce ==
    IsReport =>
        \A i \in ReportDays, a \in DOMAIN animal :
            /\ Cardinality(Listings(a, i)) <= 1
            /\ \A l \in Listings(a, i) :
                  l[2] = AgeGroup(events, a, resp.dates[i])

C30_Witness ==
    /\ IsReport
    /\ \E i \in ReportDays, a \in DOMAIN animal :
          /\ Cardinality(Listings(a, i)) = 1
          /\ \E l \in Listings(a, i) : NestOrder[l[1]] = "N2" /\ l[2] = "juvenile"
          /\ \E e, f \in EventsOf(a, resp.dates[i]) :
                /\ events[e].location = "N1"
                /\ events[f].location = "N2"
                /\ events[e].date = events[f].date

====
